---- MODULE Spec2Model ----
(***************************************************************************)
(* Model of the GPT-OSS gateway: the FastAPI route chat_completions of     *)
(* main.py (buffered and streaming relay to one upstream backend) and the  *)
(* RunPod one-shot handler that drives the same route function.            *)
(*                                                                         *)
(* Conventions.  An optional value (Python None, an absent dict key, JSON  *)
(* null) is a set with at most one element.  A JSON object is the set of   *)
(* its <<key, value>> pairs.  A message text built with an f-string is the *)
(* sequence of its fragments, so "contains E verbatim" is "E is one of the *)
(* fragments".  A float is written in tenths (0.7 is 7).                   *)
(***************************************************************************)
EXTENDS Integers, Sequences, FiniteSets, TLC

\* ---------------------------------------------------------------- bounds
MaxMsgs == 2        \* longest messages list of a request
MaxChunks == 3      \* most text chunks one upstream stream yields

\* ---------------------------------------------------------- optional values
None == {}
Some(v) == {v}
Val(o) == CHOOSE v \in o : TRUE
\* dict.get(key, default)
Get(o, default) == IF o = None THEN default ELSE Val(o)
\* Python's `a or b` on an Optional number: None and 0 are falsy
PyOr(o, default) == IF o = None \/ Val(o) = 0 THEN default ELSE Val(o)
SeqsUpTo(S, n) == UNION {[1..k -> S] : k \in 0..n}

\* ------------------------------------------------------------ configuration
MAX_TOKENS == 2048
TEMPERATURE == 7
DefaultModel == "gpt-oss-120b"
DefaultTopP == 10
DefaultPenalty == 0

\* ------------------------------------------------------------- data model
ChatMessage(role, content) == [role |-> role, content |-> content]

ChatCompletionRequest(messages, model, max_tokens, temperature, stream, top_p, frequency_penalty, presence_penalty) ==
    [messages |-> messages, model |-> model, max_tokens |-> max_tokens,
     temperature |-> temperature, stream |-> stream, top_p |-> top_p,
     frequency_penalty |-> frequency_penalty, presence_penalty |-> presence_penalty]

\* the fields ChatCompletionResponse declares, and those without a default
ResponseFields == {"id", "object", "created", "model", "choices", "usage"}
RequiredResponseFields == {"id", "created", "model", "choices", "usage"}
Keys(json) == {p[1] : p \in json}

\* ------------------------------------------------------------- exceptions
NoExc == [type |-> "none", status |-> 0, detail |-> <<>>]
HTTPException(status_code, detail) == [type |-> "HTTPException", status |-> status_code, detail |-> detail]
RequestError(msg) == [type |-> "RequestError", status |-> 0, detail |-> msg]
JSONDecodeError == [type |-> "JSONDecodeError", status |-> 0, detail |-> <<"Expecting value">>]
\* str(e): an HTTPException prints as "<status>: <detail>"
Str(e) == IF e.type = "HTTPException" THEN <<ToString(e.status), ": ">> \o e.detail ELSE e.detail

\* what a call of the route function gives: a returned value or a raised exception
NoJson == {}
JsonValue(json) == [kind |-> "json", json |-> json]
StreamingResponse == [kind |-> "StreamingResponse", json |-> NoJson]
NoValue == [kind |-> "none", json |-> NoJson]
Return(value, calls) == [kind |-> "return", value |-> value, exc |-> NoExc, calls |-> calls]
Raise(exc, calls) == [kind |-> "raise", value |-> NoValue, exc |-> exc, calls |-> calls]

\* ---------------------------------------------------------- upstream calls
\* the payload of the upstream POST (main.py, "Prepare request for GPT-OSS API")
gpt_oss_request(request) ==
    [messages |-> request.messages,
     model |-> request.model,
     max_tokens |-> Some(PyOr(request.max_tokens, MAX_TOKENS)),
     temperature |-> Some(PyOr(request.temperature, TEMPERATURE)),
     top_p |-> request.top_p,
     frequency_penalty |-> request.frequency_penalty,
     presence_penalty |-> request.presence_penalty,
     stream |-> request.stream]

\* one upstream HTTP call as it leaves the gateway
PostCall(request) == [mode |-> "post", payload |-> gpt_oss_request(request)]
StreamCall(request) == [mode |-> "stream", payload |-> gpt_oss_request(request)]

\* What the upstream does with a call: the connection fails (httpx.RequestError)
\* or a response arrives with a status, a raw body text, the JSON the text
\* parses to (None when it is not JSON) and, for a streamed body, the text
\* chunks response.aiter_text() yields.
ConnectFailure(msg) == [kind |-> "connect_error", status |-> 0, text |-> msg, json |-> None, chunks |-> <<>>]
UpstreamResponse(status, text, json, chunks) == [kind |-> "response", status |-> status, text |-> text, json |-> json, chunks |-> chunks]

\* ------------------------------------------------------- chat_completions
\* the else branch of `if request.stream`: the buffered relay
BufferedRelay(request, outcome) ==
    LET calls == <<PostCall(request)>>
    IN  IF outcome.kind = "connect_error" THEN Raise(RequestError(<<outcome.text>>), calls)
        ELSE IF outcome.status # 200
             THEN Raise(HTTPException(outcome.status, <<"GPT-OSS API error: ", outcome.text>>), calls)
        ELSE IF outcome.json = None THEN Raise(JSONDecodeError, calls)
        ELSE Return(JsonValue(Val(outcome.json)), calls)

\* the body of the try block: the streaming branch only builds the generator
\* and wraps it, the upstream stream is opened when the generator first runs
TryBlock(request, outcome) ==
    IF request.stream THEN Return(StreamingResponse, <<>>)
    ELSE BufferedRelay(request, outcome)

\* the two except clauses, tried in order
ExceptClausesSwapped(r) ==
    IF r.kind # "raise" THEN r
    ELSE Raise(HTTPException(500, <<"Internal server error: ">> \o Str(r.exc)), r.calls)

ExceptClauses(r) ==
    IF r.kind # "raise" THEN r
    ELSE IF r.exc.type = "RequestError"
         THEN Raise(HTTPException(503, <<"Failed to connect to GPT-OSS API: ">> \o Str(r.exc)), r.calls)
    ELSE Raise(HTTPException(500, <<"Internal server error: ">> \o Str(r.exc)), r.calls)

chat_completions(request, outcome) == ExceptClauses(TryBlock(request, outcome))

\* the dependency both adapters resolve the client with
get_http_client(client) ==
    IF client = "None" THEN Raise(HTTPException(500, <<"HTTP client not initialized">>), <<>>)
    ELSE Return(NoValue, <<>>)

\* ----------------------------------------------------------- server adapter
\* The HTTP response of the route.  status 0: nothing sent yet.
NoResponse == [started |-> FALSE, status |-> 0, detail |-> <<>>, json |-> NoJson, complete |-> FALSE]
ErrorResponse(status, detail) == [started |-> TRUE, status |-> status, detail |-> detail, json |-> NoJson, complete |-> TRUE]
JsonResponse(json) == [started |-> TRUE, status |-> 200, detail |-> <<>>, json |-> json, complete |-> TRUE]
StreamStarted == [started |-> TRUE, status |-> 200, detail |-> <<>>, json |-> NoJson, complete |-> FALSE]

\* response_model=ChatCompletionResponse: the returned dict is validated
\* against the model (a missing required field fails the response), fields
\* the model does not declare are left out and `object` gets its default
SerializeResponse(json) ==
    IF ~(RequiredResponseFields \subseteq Keys(json))
    THEN ErrorResponse(500, <<"Internal Server Error">>)
    ELSE JsonResponse({p \in json : p[1] \in ResponseFields}
                      \cup (IF "object" \in Keys(json) THEN {} ELSE {<<"object", "chat.completion">>}))

\* what the framework sends for the result of the route function
RouteResponse(r) ==
    IF r.kind = "raise" THEN ErrorResponse(r.exc.status, r.exc.detail)
    ELSE IF r.value.kind = "json" THEN SerializeResponse(r.value.json)
    ELSE NoResponse

\* --------------------------------------------------------- one-shot adapter
\* the envelope handler returns: a dict with the keys `keys`
ErrorEnvelope(msg) == [keys |-> {"error"}, success |-> FALSE, result |-> NoValue, error |-> msg]
SuccessEnvelope(value) == [keys |-> {"success", "result"}, success |-> TRUE, result |-> value, error |-> <<>>]

NoRequest == ChatCompletionRequest(<<>>, DefaultModel, None, None, FALSE, DefaultTopP, DefaultPenalty, DefaultPenalty)
EmptyInput == [prompt |-> None, messages |-> None, model |-> None, max_tokens |-> None,
               temperature |-> None, stream |-> None, top_p |-> None,
               frequency_penalty |-> None, presence_penalty |-> None]

TranslateMessagesAssistantDefault(input_data) ==
    IF input_data.prompt # None
    THEN <<ChatMessage("user", Val(input_data.prompt))>>
    ELSE LET ms == Val(input_data.messages)
         IN  [i \in DOMAIN ms |-> ChatMessage(Get(ms[i].role, "assistant"), Get(ms[i].content, ""))]

\* the translation of the event's input to the message list
TranslateMessages(input_data) ==
    IF input_data.prompt # None
    THEN <<ChatMessage("user", Val(input_data.prompt))>>
    ELSE LET ms == Val(input_data.messages)
         IN  [i \in DOMAIN ms |-> ChatMessage(Get(ms[i].role, "user"), Get(ms[i].content, ""))]

HandlerRequest(input_data) ==
    ChatCompletionRequest(TranslateMessages(input_data),
                          Get(input_data.model, DefaultModel),
                          input_data.max_tokens,
                          input_data.temperature,
                          Get(input_data.stream, FALSE),
                          Get(input_data.top_p, DefaultTopP),
                          Get(input_data.frequency_penalty, DefaultPenalty),
                          Get(input_data.presence_penalty, DefaultPenalty))

MissingFieldMessage == <<"Missing required field: either 'prompt' or 'messages' must be provided">>

\* What a run of handler comes to: the envelope it returns or the exception
\* it raises, the request it built, the upstream calls it made and the
\* functions of main.py it invoked, in order.
NoEnvelope == [keys |-> {}, success |-> FALSE, result |-> NoValue, error |-> <<>>]
HandlerReturn(envelope, request, calls, invoked) ==
    [raised |-> NoExc, envelope |-> envelope, request |-> request, calls |-> calls, invoked |-> invoked]
HandlerRaise(exc, request, calls, invoked) ==
    [raised |-> exc, envelope |-> NoEnvelope, request |-> request, calls |-> calls, invoked |-> invoked]

\* the inner try block: the client lookup, then the relay on a fresh loop
HandlerRelay(request, client, outcome) ==
    LET got == get_http_client(client)
    IN  IF got.kind = "raise" THEN HandlerRaise(got.exc, request, <<>>, <<"get_http_client">>)
        ELSE LET r == chat_completions(request, outcome)
             IN  IF r.kind = "raise"
                 THEN HandlerRaise(r.exc, request, r.calls, <<"get_http_client", "chat_completions">>)
                 ELSE HandlerReturn(SuccessEnvelope(r.value), request, r.calls,
                                    <<"get_http_client", "chat_completions">>)

HandlerTryLookupFirst(event, client, outcome) ==
    LET input_data == Get(event.input, EmptyInput)
        got == get_http_client(client)
    IN  IF got.kind = "raise" THEN HandlerRaise(got.exc, NoRequest, <<>>, <<"get_http_client">>)
        ELSE IF input_data.prompt = None /\ input_data.messages = None
        THEN HandlerReturn(ErrorEnvelope(MissingFieldMessage), NoRequest, <<>>, <<"get_http_client">>)
        ELSE HandlerRelay(HandlerRequest(input_data), client, outcome)

\* the body of handler's outer try block
HandlerTry(event, client, outcome) ==
    LET input_data == Get(event.input, EmptyInput)
    IN  IF input_data.prompt = None /\ input_data.messages = None
        THEN HandlerReturn(ErrorEnvelope(MissingFieldMessage), NoRequest, <<>>, <<>>)
        ELSE HandlerRelay(HandlerRequest(input_data), client, outcome)

HandlerExceptRequestErrorOnly(t) ==
    IF t.raised.type = "RequestError"
    THEN [t EXCEPT !.raised = NoExc, !.envelope = ErrorEnvelope(<<"Handler error: ">> \o Str(t.raised))]
    ELSE t

\* `except Exception as e`: whatever the try block raised becomes an envelope
HandlerExcept(t) ==
    IF t.raised = NoExc THEN t
    ELSE [t EXCEPT !.raised = NoExc, !.envelope = ErrorEnvelope(<<"Handler error: ">> \o Str(t.raised))]

\* handler(event) in a process whose global client is `client`, against an
\* upstream that behaves as `outcome`
handler(event, client, outcome) == HandlerExcept(HandlerTry(event, client, outcome))

\* ------------------------------------------------------------------ inputs
Roles == {"user", "assistant"}
Contents == {"Hello"}
ChatMessages == {ChatMessage(r, c) : r \in Roles, c \in Contents}
OptTokens == {None, Some(0), Some(50)}
OptTemperatures == {None, Some(0), Some(10)}

\* the bodies POST /v1/chat/completions accepts (pydantic: messages is any list)
Requests ==
    {ChatCompletionRequest(m, DefaultModel, t, temp, s, DefaultTopP, DefaultPenalty, DefaultPenalty) :
        m \in SeqsUpTo(ChatMessages, MaxMsgs), t \in OptTokens, temp \in OptTemperatures, s \in BOOLEAN}

\* the events of the one-shot adapter: each key of the input present or not
MessageInputs == {[role |-> r, content |-> c] : r \in {None, Some("assistant")}, c \in {None, Some("Hello")}}
InputDatas ==
    {[EmptyInput EXCEPT !.prompt = p, !.messages = m, !.max_tokens = t, !.temperature = temp, !.stream = s] :
        p \in {None, Some("Hello")},
        m \in {None} \cup {Some(ms) : ms \in SeqsUpTo(MessageInputs, MaxMsgs)},
        t \in OptTokens, temp \in OptTemperatures, s \in {None, Some(FALSE), Some(TRUE)}}
NoEvent == [input |-> None]
Events == {NoEvent} \cup {[input |-> Some(d)] : d \in InputDatas}

\* upstream behaviours
FullBody == {<<"id", "chatcmpl-1">>, <<"object", "chat.completion">>, <<"created", "1754524040">>,
             <<"model", "gpt-oss-120b">>, <<"choices", "Hi">>, <<"usage", "30">>}
Bodies == {FullBody,
           FullBody \cup {<<"system_fingerprint", "fp">>},
           FullBody \ {<<"object", "chat.completion">>},
           {<<"choices", "Hi">>}}
ErrorStatuses == {400, 503}
ErrorTexts == {"model overloaded"}
\* the text chunks aiter_text() can yield; a chunk can be empty (bytes that
\* complete no character yet, the final flush of the text decoder), which is
\* the case the generator's `if chunk` tests for
Chunks == {"", "a", "b"}
NoOutcome == ConnectFailure("")
ConnectFailures == {ConnectFailure("All connection attempts failed")}
ErrorOutcomes == {UpstreamResponse(st, e, None, <<>>) : st \in ErrorStatuses, e \in ErrorTexts}
PostOutcomes ==
    ConnectFailures \cup ErrorOutcomes
    \cup {UpstreamResponse(200, "json", Some(b), <<>>) : b \in Bodies}
    \cup {UpstreamResponse(200, "not json", None, <<>>)}
StreamOutcomes ==
    ConnectFailures \cup ErrorOutcomes
    \cup {UpstreamResponse(200, "", None, ch) : ch \in SeqsUpTo(Chunks, MaxChunks)}

\* ------------------------------------------------------------------- state
VARIABLES
    http_client,    \* the module global: "None" until lifespan startup, then "open"
    pc,             \* where the operation in progress stands
    path,           \* "server" or "oneshot": the adapter that runs it
    event,          \* the event of the one-shot invocation
    request,        \* the ChatCompletionRequest of the operation
    calls,          \* the upstream calls the operation has issued, in order
    upstream,       \* how the upstream behaves towards the operation
    response,       \* what the server adapter has sent to the caller
    envelope,       \* what handler returned
    invoked,        \* the functions of main.py handler has called, in order
    streamOpen,     \* the upstream stream of generate_stream is open
    upLeft,         \* chunks the upstream has still to send
    upRead,         \* chunks generate_stream has read from upstream
    cur,            \* the chunk in the generator's hands
    delivered,      \* chunks sent on to the caller
    unhandled,      \* the exception that left generate_stream or handler, if any
    disconnected    \* the caller has gone away mid-stream

vars == <<http_client, pc, path, event, request, calls, upstream, response, envelope, invoked,
          streamOpen, upLeft, upRead, cur, delivered, unhandled, disconnected>>
streamVars == <<streamOpen, upLeft, upRead, cur, delivered, unhandled, disconnected>>

Idle ==
    /\ pc = "idle"
    /\ path = "none"
    /\ event = NoEvent
    /\ request = NoRequest
    /\ calls = <<>>
    /\ upstream = NoOutcome
    /\ response = NoResponse
    /\ envelope = NoEnvelope
    /\ invoked = <<>>
    /\ streamOpen = FALSE
    /\ upLeft = <<>>
    /\ upRead = <<>>
    /\ cur = ""
    /\ delivered = <<>>
    /\ unhandled = NoExc
    /\ disconnected = FALSE

Init == http_client = "None" /\ Idle

\* lifespan, up to its yield: the server creates the shared client
Startup ==
    /\ pc = "idle"
    /\ http_client = "None"
    /\ http_client' = "open"
    /\ UNCHANGED <<invoked, pc, path, event, request, calls, upstream, response, envelope>>
    /\ UNCHANGED streamVars

\* the server accepts a POST /v1/chat/completions (it serves only once
\* lifespan startup has run, so the client dependency resolves)
ReceiveRequest ==
    /\ pc = "idle"
    /\ get_http_client(http_client).kind = "return"
    /\ \E r \in Requests : request' = r
    /\ path' = "server"
    /\ pc' = "route"
    /\ UNCHANGED <<invoked, http_client, event, calls, upstream, response, envelope>>
    /\ UNCHANGED streamVars

\* chat_completions with stream false, and the response the framework makes
\* of what it returns or raises
BufferedRoute ==
    /\ pc = "route"
    /\ ~request.stream
    /\ \E outcome \in PostOutcomes :
        LET r == chat_completions(request, outcome)
        IN  /\ upstream' = outcome
            /\ calls' = calls \o r.calls
            /\ response' = RouteResponse(r)
    /\ pc' = "done"
    /\ UNCHANGED <<invoked, http_client, path, event, request, envelope>>
    /\ UNCHANGED streamVars

\* chat_completions with stream true: returns the StreamingResponse that
\* wraps the generator, which has not run yet
StreamRoute ==
    /\ pc = "route"
    /\ request.stream
    /\ LET r == chat_completions(request, NoOutcome)
       IN  /\ r.kind = "return" /\ r.value = StreamingResponse
           /\ calls' = calls \o r.calls
    /\ pc' = "respond"
    /\ UNCHANGED <<invoked, http_client, path, event, request, upstream, response, envelope>>
    /\ UNCHANGED streamVars

\* StreamingResponse sends the response start (status 200 and the headers)
\* before it asks the generator for its first chunk
SendResponseStart ==
    /\ pc = "respond"
    /\ response' = StreamStarted
    /\ pc' = "gen_start"
    /\ UNCHANGED <<invoked, http_client, path, event, request, calls, upstream, envelope>>
    /\ UNCHANGED streamVars

\* ---------------------------------------------------------- generate_stream
\* `if chunk:` an empty text chunk is not yielded
ShouldYieldAll(chunk) == TRUE

ShouldYield(chunk) == chunk # ""

AsyncWithExitLeavesOpen(open) == open

\* leaving the `async with client.stream(...)` block, by the end of the body,
\* by an exception or by the generator being cancelled or closed, closes the
\* upstream stream
AsyncWithExit(open) == FALSE

\* the generator's first step: client.stream(...) is entered, the streaming
\* POST goes out and either fails to connect or the response head arrives
GenOpen ==
    /\ pc = "gen_start"
    /\ calls' = Append(calls, StreamCall(request))
    /\ \E outcome \in StreamOutcomes :
        /\ upstream' = outcome
        /\ IF outcome.kind = "connect_error"
           THEN /\ unhandled' = RequestError(<<outcome.text>>)
                /\ pc' = "done"
                /\ UNCHANGED <<streamOpen, upLeft>>
           ELSE /\ streamOpen' = TRUE
                /\ upLeft' = outcome.chunks
                /\ pc' = "gen_status"
                /\ UNCHANGED unhandled
    /\ UNCHANGED <<invoked, http_client, path, event, request, response, envelope>>
    /\ UNCHANGED <<upRead, cur, delivered, disconnected>>

\* `if response.status_code != 200`: the error body is read and an
\* HTTPException raised inside the generator; leaving the `async with`
\* closes the upstream stream
GenStatus ==
    /\ pc = "gen_status"
    /\ IF upstream.status # 200
       THEN /\ unhandled' = HTTPException(upstream.status, <<"GPT-OSS API error: ", upstream.text>>)
            /\ streamOpen' = AsyncWithExit(streamOpen)
            /\ pc' = "done"
       ELSE /\ pc' = "gen_iter"
            /\ UNCHANGED <<unhandled, streamOpen>>
    /\ UNCHANGED <<invoked, http_client, path, event, request, calls, upstream, response, envelope>>
    /\ UNCHANGED <<upLeft, upRead, cur, delivered, disconnected>>

\* `async for chunk in response.aiter_text()`: the next chunk arrives
GenRead ==
    /\ pc = "gen_iter"
    /\ upLeft # <<>>
    /\ cur' = Head(upLeft)
    /\ upRead' = Append(upRead, Head(upLeft))
    /\ upLeft' = Tail(upLeft)
    /\ pc' = "gen_chunk"
    /\ UNCHANGED <<invoked, http_client, path, event, request, calls, upstream, response, envelope>>
    /\ UNCHANGED <<streamOpen, delivered, unhandled, disconnected>>

\* the upstream body is exhausted: the loop ends, the `async with` closes
\* the stream and the response body is complete
GenExhausted ==
    /\ pc = "gen_iter"
    /\ upLeft = <<>>
    /\ streamOpen' = AsyncWithExit(streamOpen)
    /\ response' = [response EXCEPT !.complete = TRUE]
    /\ pc' = "done"
    /\ UNCHANGED <<invoked, http_client, path, event, request, calls, upstream, envelope>>
    /\ UNCHANGED <<upLeft, upRead, cur, delivered, unhandled, disconnected>>

\* the upstream connection drops while the next chunk is awaited: the read
\* raises, the `async with` closes the stream and the exception leaves the
\* generator
GenReadError ==
    /\ pc = "gen_iter"
    /\ unhandled' = RequestError(<<"peer closed connection without sending complete message body">>)
    /\ streamOpen' = AsyncWithExit(streamOpen)
    /\ pc' = "done"
    /\ UNCHANGED <<invoked, http_client, path, event, request, calls, upstream, response, envelope>>
    /\ UNCHANGED <<upLeft, upRead, cur, delivered, disconnected>>

\* `if chunk: yield chunk`: the chunk is handed to the response, or skipped
GenYield ==
    /\ pc = "gen_chunk"
    /\ pc' = IF ShouldYield(cur) THEN "gen_send" ELSE "gen_iter"
    /\ UNCHANGED <<invoked, http_client, path, event, request, calls, upstream, response, envelope>>
    /\ UNCHANGED streamVars

ConsumerTakeUnawaited ==
    /\ pc = "gen_send"
    /\ pc' = "gen_iter"
    /\ UNCHANGED <<invoked, http_client, path, event, request, calls, upstream, response, envelope>>
    /\ UNCHANGED streamVars

\* StreamingResponse awaits the send of the yielded chunk to the caller and
\* only then resumes the generator
ConsumerTake ==
    /\ pc = "gen_send"
    /\ delivered' = Append(delivered, cur)
    /\ pc' = "gen_iter"
    /\ UNCHANGED <<invoked, http_client, path, event, request, calls, upstream, response, envelope>>
    /\ UNCHANGED <<streamOpen, upLeft, upRead, cur, unhandled, disconnected>>

\* the caller disconnects while the generator is suspended (before its first
\* step, awaiting a chunk or awaiting a send): the response task is
\* cancelled and the `async with` closes the stream if it is open
Disconnect ==
    /\ pc \in {"gen_start", "gen_iter", "gen_send"}
    /\ disconnected' = TRUE
    /\ streamOpen' = AsyncWithExit(streamOpen)
    /\ pc' = "done"
    /\ UNCHANGED <<invoked, http_client, path, event, request, calls, upstream, response, envelope>>
    /\ UNCHANGED <<upLeft, upRead, cur, delivered, unhandled>>

\* ------------------------------------------------------- one-shot invocation
\* handler(event) runs to completion in the calling thread
Handler ==
    /\ pc = "idle"
    /\ \E ev \in Events, outcome \in PostOutcomes :
        LET h == handler(ev, http_client, outcome)
        IN  /\ event' = ev
            /\ upstream' = outcome
            /\ request' = h.request
            /\ calls' = h.calls
            /\ invoked' = h.invoked
            /\ envelope' = h.envelope
            /\ unhandled' = h.raised
    /\ path' = "oneshot"
    /\ pc' = "done"
    /\ UNCHANGED <<http_client, response>>
    /\ UNCHANGED <<streamOpen, upLeft, upRead, cur, delivered, disconnected>>

\* the operation is over; its per-request state is discarded
Finish ==
    /\ pc = "done"
    /\ pc' = "idle"
    /\ path' = "none"
    /\ event' = NoEvent
    /\ request' = NoRequest
    /\ calls' = <<>>
    /\ upstream' = NoOutcome
    /\ response' = NoResponse
    /\ envelope' = NoEnvelope
    /\ invoked' = <<>>
    /\ streamOpen' = FALSE
    /\ upLeft' = <<>>
    /\ upRead' = <<>>
    /\ cur' = ""
    /\ delivered' = <<>>
    /\ unhandled' = NoExc
    /\ disconnected' = FALSE
    /\ UNCHANGED http_client

Next ==
    \/ Startup
    \/ ReceiveRequest
    \/ BufferedRoute
    \/ StreamRoute
    \/ SendResponseStart
    \/ GenOpen
    \/ GenStatus
    \/ GenRead
    \/ GenExhausted
    \/ GenReadError
    \/ GenYield
    \/ ConsumerTake
    \/ Disconnect
    \/ Handler
    \/ Finish

Spec == Init /\ [][Next]_vars

\* ================================================================== claims
Contains(msg, fragment) == \E i \in DOMAIN msg : msg[i] = fragment
StartsWith(msg, fragment) == msg # <<>> /\ Head(msg) = fragment
IsPrefix(s, t) == Len(s) <= Len(t) /\ \A i \in 1..Len(s) : s[i] = t[i]
NonEmptyChunks(s) == SelectSeq(s, LAMBDA c : c # "")

ServerDone == path = "server" /\ pc = "done"
OneShotDone == path = "oneshot" /\ pc = "done"
\* the upstream call returned a response object (status and whole body)
UpstreamAnswered == upstream.kind = "response"
\* the input of the event carries a prompt or a messages list
ShapedInput == event.input # None /\ (Val(event.input).prompt # None \/ Val(event.input).messages # None)

\* C1: a buffered request whose upstream answers a status S other than 200
\* with body E is answered with status S and a message containing E.
C1_UpstreamStatusPassedThrough ==
    (ServerDone /\ ~request.stream /\ UpstreamAnswered /\ upstream.status # 200)
        => (response.status = upstream.status /\ Contains(response.detail, upstream.text))

\* C2: a streaming request whose upstream answers a status other than 200
\* never leaves the caller with a response begun as a 200 stream; the caller
\* gets the upstream status and the drained error body.
C2_NoStreamStartedOnUpstreamError ==
    (ServerDone /\ request.stream /\ UpstreamAnswered /\ upstream.status # 200)
        => (response.status = upstream.status /\ Contains(response.detail, upstream.text))

\* C3: handler run where no client exists, on a well-shaped buffered input
\* and an upstream answering 200 with body B, makes its own client, relays
\* once and returns {success: true, result: B}.
C3_OneShotCreatesClient ==
    (OneShotDone /\ http_client = "None" /\ ShapedInput /\ ~request.stream
       /\ UpstreamAnswered /\ upstream.status = 200 /\ upstream.json # None)
        => (envelope = SuccessEnvelope(JsonValue(Val(upstream.json))) /\ Len(calls) = 1)

\* C4: in every payload sent upstream max_tokens and temperature are the
\* caller's values when supplied (0 included), the configured defaults only
\* when omitted, and never null.
C4_SuppliedSamplingValuesKept ==
    \A i \in DOMAIN calls :
        /\ calls[i].payload.max_tokens = Some(Get(request.max_tokens, MAX_TOKENS))
        /\ calls[i].payload.temperature = Some(Get(request.temperature, TEMPERATURE))

\* C5: a buffered request whose upstream answers 200 with JSON body B is
\* answered with status 200 and body exactly B.
C5_BufferedBodyPassedThrough ==
    (ServerDone /\ ~request.stream /\ UpstreamAnswered /\ upstream.status = 200 /\ upstream.json # None)
        => (response.status = 200 /\ response.json = Val(upstream.json))

\* C6: a buffered request whose upstream call fails at connection level is
\* answered 503 with a message naming the failure to connect, and no request
\* on which the upstream returned a status gets that answer.
FailedToConnect == response.status = 503 /\ StartsWith(response.detail, "Failed to connect to GPT-OSS API: ")

C6_TransportFailureIs503 ==
    (ServerDone /\ ~request.stream)
        => /\ upstream.kind = "connect_error" => (FailedToConnect /\ Contains(response.detail, upstream.text))
           /\ UpstreamAnswered => ~FailedToConnect

C6_Witness ==
    ServerDone /\ ~request.stream /\ upstream \in ConnectFailures /\ Len(calls) = 1 /\ FailedToConnect

\* C7: a streaming request whose upstream stream cannot be opened is
\* answered 503; no exception leaves the generator after a 200 has begun.
C7_StreamConnectFailureIs503 ==
    (ServerDone /\ request.stream /\ upstream \in ConnectFailures)
        => (response.status = 503 /\ unhandled = NoExc)

\* C8: a one-shot invocation with stream=true (here: in a process that has a
\* client) makes exactly one buffered POST and its result is the complete
\* upstream body, never a stream object.
C8_OneShotStreamIsBuffered ==
    (OneShotDone /\ http_client # "None" /\ ShapedInput /\ Val(event.input).stream = Some(TRUE))
        => /\ Len(calls) = 1
           /\ \A i \in DOMAIN calls : calls[i].mode = "post"
           /\ envelope.success => (upstream.json # None /\ envelope.result = JsonValue(Val(upstream.json)))

\* C9: no upstream request is ever issued with an empty messages list.
C9_NoEmptyMessagesUpstream ==
    \A i \in DOMAIN calls : calls[i].payload.messages # <<>>

\* C10, as claimed: in a streaming relay with upstream status 200 the chunks
\* delivered are always a prefix of the chunks read, and equal to them on
\* normal completion.
StreamingOk == path = "server" /\ request.stream /\ UpstreamAnswered /\ upstream.status = 200

C10_DeliveredEqualsRead ==
    StreamingOk
        => /\ IsPrefix(delivered, upRead)
           /\ (pc = "done" /\ response.complete) => delivered = upRead

\* C10, amended: the chunks delivered are always a prefix of the non-empty
\* chunks read, in order, and on normal completion they are exactly the
\* non-empty chunks of everything the upstream sent.
C10_DeliveredEqualsNonEmptyRead ==
    StreamingOk
        => /\ IsPrefix(delivered, NonEmptyChunks(upRead))
           /\ IsPrefix(upRead, upstream.chunks)
           /\ (pc = "done" /\ response.complete)
                => (upRead = upstream.chunks /\ delivered = NonEmptyChunks(upRead))

C10_Witness ==
    /\ StreamingOk /\ pc = "done" /\ response.complete
    /\ Len(upRead) = 3 /\ upRead[2] = ""
    /\ Len(delivered) = 2 /\ delivered[1] # delivered[2]

\* C11: an input with neither prompt nor messages gets {error: <message>} as
\* a returned value, with a message no upstream or transport failure gives,
\* and neither the client lookup nor the relay nor an upstream call happens.
C11_MissingShapeRejectedBeforeRelay ==
    OneShotDone
        => /\ ~ShapedInput
                => /\ unhandled = NoExc
                   /\ envelope = ErrorEnvelope(MissingFieldMessage)
                   /\ invoked = <<>>
                   /\ calls = <<>>
           /\ ShapedInput => envelope.error # MissingFieldMessage

C11_Witness ==
    /\ OneShotDone /\ event.input # None /\ ~ShapedInput
    /\ Val(event.input).stream = Some(TRUE)
    /\ http_client = "None"
    /\ envelope.keys = {"error"}

\* C12: an input carrying exactly one of the two shapes is translated to the
\* reference message list: {prompt: s} to one user message with content s,
\* {messages: [m1..mn]} to n messages in input order, role defaulting to
\* "user" and content to "".
InputPrompt == Val(event.input).prompt
InputMessages == Val(event.input).messages

C12_TranslationMatchesReference ==
    (OneShotDone /\ event.input # None)
        => /\ (InputPrompt # None /\ InputMessages = None)
                => request.messages = <<[role |-> "user", content |-> Val(InputPrompt)]>>
           /\ (InputPrompt = None /\ InputMessages # None)
                => /\ Len(request.messages) = Len(Val(InputMessages))
                   /\ \A i \in 1..Len(Val(InputMessages)) :
                        LET mi == Val(InputMessages)[i]
                        IN  /\ request.messages[i].role = (IF mi.role = None THEN "user" ELSE Val(mi.role))
                            /\ request.messages[i].content = (IF mi.content = None THEN "" ELSE Val(mi.content))

C12_Witness ==
    /\ OneShotDone /\ event.input # None
    /\ InputPrompt = None /\ InputMessages # None
    /\ Len(Val(InputMessages)) = 2
    /\ Val(InputMessages)[1] = [role |-> None, content |-> Some("Hello")]
    /\ Val(InputMessages)[2] = [role |-> Some("assistant"), content |-> None]
    /\ request.messages = <<[role |-> "user", content |-> "Hello"], [role |-> "assistant", content |-> ""]>>

\* C13: handler always returns and never raises; when the input is rejected,
\* the client is missing, the upstream call fails to connect, the upstream
\* answers non-200 or anything else goes wrong it returns {error: <string>}
\* with no success key, and success = true only when the relay returned.
RelayFailed ==
    \/ ~ShapedInput
    \/ http_client = "None"
    \/ ~request.stream /\ (upstream.kind = "connect_error" \/ upstream.status # 200 \/ upstream.json = None)

C13_HandlerAlwaysReturnsEnvelope ==
    OneShotDone
        => /\ unhandled = NoExc
           /\ RelayFailed => (envelope.keys = {"error"} /\ ~envelope.success /\ envelope.error # <<>>)
           /\ ~RelayFailed => (envelope.keys = {"success", "result"} /\ envelope.success
                                /\ invoked = <<"get_http_client", "chat_completions">>)

C13_Witness ==
    /\ OneShotDone /\ ShapedInput /\ http_client = "open" /\ ~request.stream
    /\ upstream \in ErrorOutcomes
    /\ Len(calls) = 1
    /\ envelope.keys = {"error"}
    /\ StartsWith(envelope.error, "Handler error: ")

\* C14, as claimed: in a streaming relay the chunks read from upstream exceed
\* the chunks the consumer has taken by at most one.
C14_ReadAheadAtMostOne ==
    StreamingOk => Len(upRead) - Len(delivered) <= 1

\* C14, amended: the non-empty chunks read exceed the chunks the consumer has
\* taken by at most one, and whenever the generator is about to read the
\* next chunk the consumer has taken every non-empty chunk read so far
\* (empty chunks are read and skipped without being handed on).
C14_NonEmptyReadAheadAtMostOne ==
    StreamingOk
        => /\ Len(NonEmptyChunks(upRead)) - Len(delivered) \in {0, 1}
           /\ pc = "gen_iter" => Len(NonEmptyChunks(upRead)) = Len(delivered)

C14_Witness ==
    /\ StreamingOk /\ pc = "gen_send"
    /\ Len(upRead) = 3 /\ NonEmptyChunks(upRead) = upRead
    /\ Len(delivered) = 2
    /\ upLeft = <<>>

\* C15: a streaming relay that opened an upstream stream has closed it once
\* it is over, on every way out (body exhausted, status not 200, read error,
\* caller disconnect), the stream is open only while the generator is inside
\* its `async with`, and after a disconnect the generator no longer runs, so
\* no further chunk is read.
C15_StreamClosedOnEveryExit ==
    /\ pc = "done" => ~streamOpen
    /\ streamOpen => pc \in {"gen_status", "gen_iter", "gen_chunk", "gen_send"}
    /\ disconnected => pc = "done"

C15_Witness ==
    /\ path = "server" /\ pc = "done" /\ disconnected
    /\ StreamingOk
    /\ upRead # <<>> /\ upLeft # <<>>
    /\ ~streamOpen

====
